---- MODULE Spec2Model ----
(***************************************************************************)
(* Willow Application Server: the per-device WebSocket route               *)
(* (app/main.py, websocket_endpoint), the application start-up (lifespan)  *)
(* and the command-endpoint (re)configuration                              *)
(* (app/internal/command_endpoints/main.py, init_command_endpoint).        *)
(*                                                                         *)
(* The server is a single-threaded asyncio program.  One iteration of the  *)
(* receive loop runs from `await websocket.receive_text()` to the next     *)
(* one without suspending, so it is one atomic action here; replies are    *)
(* scheduled with asyncio.ensure_future and never awaited by the loop.     *)
(***************************************************************************)
EXTENDS Integers, Sequences, FiniteSets, TLC

\* ------------------------------------------------------------------ bounds
MaxSessions == 2        \* WakeSession objects alive at the same time
MaxEvents == 2          \* WakeEvents recorded in one WakeSession
MaxAdapters == 2        \* adapter identities (the old one and the new one)
MaxInputs == 2          \* inputs of one run: frames read, reconfigurations,
                        \* notifications sent

\* ------------------------------------------------------------- input sets
Conns == {"ws1", "ws2"}                 \* WebSocket handles
NoConn == "none"
Volumes == {7}                          \* wake_volume values
SentIds == {1}                          \* ids NotifyQueue hands out
SessionIds == 1..MaxSessions
AdapterIds == 1..MaxAdapters
None == [none |-> TRUE]                 \* Python's None, where an object is expected
NoSession == 0                          \* wake_session = None
EmptyObj == <<>>                        \* the JSON object {}
Unset == "unset"                        \* a Client field no hello has set


VARIABLES
    inputs,             \* inputs taken so far: frames read, reconfigurations
                        \* and notifications sent
    started,            \* lifespan() has run up to its yield
    session,            \* per handle: position of its websocket_endpoint coroutine
    connected_clients,  \* app.connmgr: registered handle -> Client
    wake_session,       \* the module global wake_session: None or a session id
    sessions,           \* the live WakeSession objects, by identity
    notify_queue,       \* app.notify_queue: pending (handle, id) pairs
    command_endpoint,   \* app.command_endpoint: None or the adapter object
    last,               \* the coroutine step taken last: handle and branch
    out,                \* websocket.send_text calls scheduled by the last step
    log,                \* log.info / log.error records written by the last step
    calls,              \* adapter and registry methods called by the last step,
                        \* in order
    msg_keys            \* the known keys of the message the last step read

vars == <<inputs, started, session, connected_clients, wake_session, sessions,
          notify_queue, command_endpoint, last, out, log, calls,
          msg_keys>>

\* ------------------------------------------------------------ JSON payloads
\* A text frame either decodes to a JSON object or is not JSON at all.
Hellos ==
    { [hello |-> [hostname |-> "kitchen",
                  mac_addr |-> [str |-> "aa:bb:cc:dd:ee:ff"]]],
      [hello |-> [hostname |-> "office",
                  hw_type |-> <<"E", "s", "p", "3", "2", "s", "3">>,
                  mac_addr |-> [list |-> <<170, 187, 204, 221, 238, 255>>]]],
      [hello |-> EmptyObj] }

Objects ==
    { [wake_start |-> [wake_volume |-> v]] : v \in Volumes }
    \cup { [wake_start |-> EmptyObj],
           [wake_end |-> EmptyObj],
           [notify_done |-> 1],
           [cmd |-> "endpoint", data |-> "turn on the light"],
           [cmd |-> "endpoint"],
           [cmd |-> "get_config"],
           [cmd |-> "restart"],
           [goodbye |-> EmptyObj],
           [ping |-> EmptyObj],
           [wake_start |-> [wake_volume |-> 7], hello |-> [hostname |-> "kitchen"]],
           [wake_end |-> EmptyObj, hello |-> [hostname |-> "office"]],
           [notify_done |-> 1, goodbye |-> EmptyObj],
           [cmd |-> "restart", goodbye |-> EmptyObj] }
    \cup Hellos

Frames == { [json |-> o] : o \in Objects } \cup { [text |-> "{not json"] }

\* json.loads(data): the object, or a JSONDecodeError
Decodes(data) == "json" \in DOMAIN data
loads(data) == data.json

\* Python's `key in dict`
Has(obj, key) == key \in DOMAIN obj

\* ------------------------------------------------------- pure functions
\* hex_mac(mac): a 6-element list is formatted as xx:xx:xx:xx:xx:xx, anything
\* else is returned as it is
HexDigits == <<"0", "1", "2", "3", "4", "5", "6", "7", "8", "9",
               "a", "b", "c", "d", "e", "f">>
Hex02(n) == HexDigits[((n \div 16) % 16) + 1] \o HexDigits[(n % 16) + 1]
hex_mac(mac) ==
    IF Has(mac, "list")
    THEN LET m == mac.list
         IN  Hex02(m[1]) \o ":" \o Hex02(m[2]) \o ":" \o Hex02(m[3]) \o ":"
             \o Hex02(m[4]) \o ":" \o Hex02(m[5]) \o ":" \o Hex02(m[6])
    ELSE mac.str

\* a hello branch that stored hw_type as sent
UpperChar_Identity(c) == c

\* str.upper() on a string given as its characters
UpperChar(c) ==
    CASE c = "e" -> "E" [] c = "s" -> "S" [] c = "p" -> "P" [] OTHER -> c
RECURSIVE upper(_)
upper(chars) ==
    IF chars = <<>> THEN "" ELSE UpperChar(Head(chars)) \o upper(Tail(chars))

\* the keys the receive loop tests for, in the order of its if / elif chain
Known == <<"wake_start", "wake_end", "notify_done", "cmd", "goodbye", "hello">>

\* a chain that tested for goodbye and hello before the other keys
Branch_GoodbyeHelloFirst(msg) ==
    IF Has(msg, "goodbye") THEN "goodbye"
    ELSE IF Has(msg, "hello") THEN "hello"
    ELSE IF Has(msg, "wake_start") THEN "wake_start"
    ELSE IF Has(msg, "wake_end") THEN "wake_end"
    ELSE IF Has(msg, "notify_done") THEN "notify_done"
    ELSE IF Has(msg, "cmd") THEN "cmd"
    ELSE "none"

\* the if / elif chain of the receive loop: the first key present selects
\* the branch, a message with none of the keys selects no branch
Branch(msg) ==
    IF Has(msg, "wake_start") THEN "wake_start"
    ELSE IF Has(msg, "wake_end") THEN "wake_end"
    ELSE IF Has(msg, "notify_done") THEN "notify_done"
    ELSE IF Has(msg, "cmd") THEN "cmd"
    ELSE IF Has(msg, "goodbye") THEN "goodbye"
    ELSE IF Has(msg, "hello") THEN "hello"
    ELSE "none"

\* the frames that carry an endpoint command
EndpointFrames ==
    { d \in Frames : /\ Decodes(d)
                     /\ Branch(loads(d)) = "cmd"
                     /\ loads(d).cmd = "endpoint" }

\* ----------------------------------------------------- ConnMgr, NotifyQueue
Client(ua) ==
    [ua |-> ua, hostname |-> Unset, platform |-> Unset, mac_addr |-> Unset]

accept(clients, ws, client) ==
    [h \in DOMAIN clients \cup {ws} |-> IF h = ws THEN client ELSE clients[h]]

disconnect(clients, ws) ==
    [h \in DOMAIN clients \ {ws} |-> clients[h]]

update_client(clients, ws, key, value) ==
    IF ws \in DOMAIN clients
    THEN [clients EXCEPT ![ws] = [@ EXCEPT ![key] = value]]
    ELSE clients

\* what a call of connmgr.disconnect / connmgr.update_client looks like in
\* `calls`: whether the handle was registered when it was made
RegistryCall(op, clients, ws, what) ==
    [op |-> op, id |-> 0, what |-> what,
     result |-> IF ws \in DOMAIN clients THEN "registered" ELSE "absent"]

\* the pending notifications of a handle go away with the handle
purge(queue, ws) == { n \in queue : n[1] # ws }

notify_done(queue, ws, id) == queue \ {<<ws, id>>}

\* the hello branch, were it to register a handle the registry does not know
on_hello_Registers(clients, ws, hello) ==
    LET c0 == IF ws \in DOMAIN clients THEN clients
              ELSE accept(clients, ws, Client(""))
        c1 == IF Has(hello, "hostname")
              THEN update_client(c0, ws, "hostname", hello.hostname)
              ELSE c0
        c2 == IF Has(hello, "hw_type")
              THEN update_client(c1, ws, "platform", upper(hello.hw_type))
              ELSE c1
    IN  IF Has(hello, "mac_addr")
        THEN update_client(c2, ws, "mac_addr", hex_mac(hello.mac_addr))
        ELSE c2

\* the hello branch: one update_client per field present, in source order
on_hello(clients, ws, hello) ==
    LET c1 == IF Has(hello, "hostname")
              THEN update_client(clients, ws, "hostname", hello.hostname)
              ELSE clients
        c2 == IF Has(hello, "hw_type")
              THEN update_client(c1, ws, "platform", upper(hello.hw_type))
              ELSE c1
    IN  IF Has(hello, "mac_addr")
        THEN update_client(c2, ws, "mac_addr", hex_mac(hello.mac_addr))
        ELSE c2

\* the update_client calls of the hello branch, in source order
hello_calls(clients, ws, hello) ==
    (IF Has(hello, "hostname")
     THEN <<RegistryCall("update_client", clients, ws, "hostname")>> ELSE <<>>)
    \o (IF Has(hello, "hw_type")
        THEN <<RegistryCall("update_client", clients, ws, "platform")>> ELSE <<>>)
    \o (IF Has(hello, "mac_addr")
        THEN <<RegistryCall("update_client", clients, ws, "mac_addr")>> ELSE <<>>)

\* ------------------------------------------------------------ WakeSession
\* tasks: cleanup tasks created for the session; fired: those that have run
WakeSession == [done |-> FALSE, events |-> <<>>, tasks |-> 0, fired |-> 0]
WakeEvent(ws, volume) == [client |-> ws, wake_volume |-> volume]

add_event(heap, id, event) ==
    [heap EXCEPT ![id].events = Append(@, event)]

\* asyncio.create_task(wake_session.cleanup())
create_task_Dropped(heap, id) == heap
create_task(heap, id) == [heap EXCEPT ![id].tasks = @ + 1]

\* a session is kept alive by the global and by its pending cleanup tasks
Collect(slot, heap) ==
    [i \in { j \in DOMAIN heap : j = slot \/ heap[j].fired < heap[j].tasks }
        |-> heap[i]]

FreshSession(heap) == CHOOSE i \in SessionIds : i \notin DOMAIN heap

NewSession(heap) ==
    LET id == FreshSession(heap)
        h1 == [i \in DOMAIN heap \cup {id} |->
                  IF i = id THEN WakeSession ELSE heap[i]]
    IN  [wake_session |-> id, sessions |-> Collect(id, create_task(h1, id))]

\* lines 200-207: a session is created when there is none or the current one
\* is done
NeedsSession_NoDoneCheck(slot, heap) == slot = NoSession
NeedsSession(slot, heap) ==
    IF slot # NoSession THEN heap[slot].done ELSE TRUE

\* a wake_start branch that scheduled a cleanup for every wake_start
on_wake_start_SchedulesOnAppend(slot, heap, ws, body) ==
    LET s1 == IF NeedsSession(slot, heap)
              THEN NewSession(heap)
              ELSE [wake_session |-> slot, sessions |-> create_task(heap, slot)]
    IN  IF Has(body, "wake_volume")
        THEN [s1 EXCEPT !.sessions =
                 add_event(@, s1.wake_session, WakeEvent(ws, body.wake_volume))]
        ELSE s1

\* a wake_start branch that recorded volume 0 for a message without one
on_wake_start_DefaultVolume(slot, heap, ws, body) ==
    LET s1 == IF NeedsSession(slot, heap)
              THEN NewSession(heap)
              ELSE [wake_session |-> slot, sessions |-> heap]
    IN  [s1 EXCEPT !.sessions =
            add_event(@, s1.wake_session,
                      WakeEvent(ws, IF Has(body, "wake_volume")
                                    THEN body.wake_volume ELSE 0))]

\* the wake_start branch
on_wake_start(slot, heap, ws, body) ==
    LET s1 == IF NeedsSession(slot, heap)
              THEN NewSession(heap)
              ELSE [wake_session |-> slot, sessions |-> heap]
    IN  IF Has(body, "wake_volume")
        THEN [s1 EXCEPT !.sessions =
                 add_event(@, s1.wake_session, WakeEvent(ws, body.wake_volume))]
        ELSE s1

\* WakeSession.cleanup(): the session is Done when the task has run
cleanup(heap, id) ==
    [heap EXCEPT ![id].done = TRUE, ![id].fired = @ + 1]

\* ------------------------------------------------- command endpoint adapters
\* what the configuration provider may have stored; None: nothing stored
Configs ==
    { EmptyObj,
      [was_mode |-> TRUE],
      [was_mode |-> TRUE, command_endpoint |-> "Node-RED"],
      [was_mode |-> TRUE, command_endpoint |-> "Home Assistant",
       hass_host |-> "hass", hass_port |-> 8123, hass_tls |-> FALSE,
       hass_token |-> "t"],
      [was_mode |-> TRUE, command_endpoint |-> "Home Assistant",
       hass_host |-> "hass", hass_port |-> 8123, hass_tls |-> FALSE],
      [was_mode |-> TRUE, command_endpoint |-> "REST", rest_url |-> "http://rest",
       rest_auth_type |-> "Header", rest_auth_header |-> "X-Auth: t"] }
Stored == Configs \cup {None}

Pick(cfg, keys) == [k \in keys \cap DOMAIN cfg |-> cfg[k]]

HassKeys == {"hass_host", "hass_port", "hass_tls", "hass_token"}
MqttKeys == {"mqtt_auth_type", "mqtt_host", "mqtt_port", "mqtt_tls", "mqtt_topic"}
MqttOptional == {"mqtt_password", "mqtt_username"}
OpenhabKeys == {"openhab_url", "openhab_token"}
RestKeys == {"rest_url"}
\* rest_auth_type is looked up with hasattr() on a dict, which never finds it
RestOptional == {"rest_auth_header", "rest_auth_pass", "rest_auth_user"}
\* lines 61-68: the setters of the installed adapter's config, in call order
RestOrder == <<"rest_auth_header", "rest_auth_pass", "rest_auth_user">>
SetterOp == [rest_auth_header |-> "set_auth_header",
             rest_auth_pass |-> "set_auth_pass",
             rest_auth_user |-> "set_auth_user"]
\* the key whose setter raises, if any
NoFault == ""
\* a setter is called with the value of its key: only the setter of a key the
\* configuration holds can raise
SetterFaults(stored) ==
    {NoFault} \cup (IF stored = None THEN {}
                    ELSE {"rest_auth_header", "mqtt_host"} \cap DOMAIN stored)

Adapter(id, name, config) ==
    [id |-> id, name |-> name, stopped |-> FALSE, config |-> config]

FreshAdapter(ce) == CHOOSE i \in AdapterIds : ce = None \/ i # ce.id

Call(op, id, result) == [op |-> op, id |-> id, result |-> result]

\* lines 17-20: app.command_endpoint.stop() inside try / except: pass.  With no
\* adapter the attribute lookup on None raises and is swallowed the same way.
StopPrevious(ce, stop_raises) ==
    IF ce = None
    THEN [command_endpoint |-> None,
          calls |-> <<Call("stop", 0, "raised")>>, log |-> <<>>]
    ELSE [command_endpoint |-> [ce EXCEPT !.stopped = TRUE],
          calls |-> <<Call("stop", ce.id,
                           IF stop_raises THEN "raised" ELSE "returned")>>,
          log |-> <<>>]

\* lines 27-68: the adapter the configuration selects: its class and the keys
\* its construction reads; an unknown name selects none
Selected(cfg) ==
    LET n == cfg.command_endpoint
    IN  CASE n = "Home Assistant" ->
                [name |-> "HomeAssistantWebSocketEndpoint", keys |-> HassKeys,
                 optional |-> {}]
          [] n = "MQTT" ->
                [name |-> "MqttEndpoint", keys |-> MqttKeys,
                 optional |-> MqttOptional]
          [] n = "openHAB" ->
                [name |-> "OpenhabEndpoint", keys |-> OpenhabKeys, optional |-> {}]
          [] n = "REST" ->
                [name |-> "RestEndpoint", keys |-> RestKeys,
                 optional |-> RestOptional]
          [] OTHER -> [name |-> "", keys |-> {}, optional |-> {}]

\* init_command_endpoint(app).  stop_raises, ctor_raises: whether stop() of the
\* previous adapter and the constructor of the new one raise; fault: the
\* configuration key whose setter raises (NoFault: none does).
\* Result: the new app.command_endpoint, the calls made on the adapters and on
\* the installed adapter's config, the log records written, and whether the
\* function raised.
\* MQTT (lines 37-50): the setters work on a local MqttConfig before the slot
\* is assigned, a raise leaves the slot as stop() left it.
\* REST (lines 56-68): the slot is assigned first, the setters follow: a raise
\* leaves the new adapter installed with the settings made so far.
init_command_endpoint(ce, stored, stop_raises, ctor_raises, fault) ==
    LET s == StopPrevious(ce, stop_raises)
        Result(slot, cs, lg, raised) ==
            [command_endpoint |-> slot, calls |-> s.calls \o cs,
             log |-> s.log \o lg, raised |-> raised]
        enabled == <<"WAS Endpoint mode enabled">>
    IN  IF stored = None                                \* get_config_db() fails
        THEN Result(s.command_endpoint, <<>>, <<>>, TRUE)
        ELSE IF ~(Has(stored, "was_mode") /\ stored.was_mode)
        THEN Result(s.command_endpoint, <<>>, <<>>, FALSE)
        ELSE IF ~Has(stored, "command_endpoint")        \* KeyError
        THEN Result(s.command_endpoint, <<>>, enabled, TRUE)
        ELSE LET sel == Selected(stored)
                 id == FreshAdapter(ce)
                 built == <<Call("construct", id, "returned")>>
                 set == SelectSeq(RestOrder, LAMBDA k : k \in DOMAIN stored)
                 failing == {i \in DOMAIN set : set[i] = fault}
             IN  IF sel.name = ""
                 THEN Result(s.command_endpoint, <<>>, enabled, FALSE)
                 ELSE IF ~(sel.keys \subseteq DOMAIN stored)     \* KeyError
                 THEN Result(s.command_endpoint, <<>>, enabled, TRUE)
                 ELSE IF /\ sel.name = "MqttEndpoint"
                         /\ fault \in sel.keys \cup (sel.optional \cap DOMAIN stored)
                 THEN Result(s.command_endpoint, <<>>, enabled, TRUE)
                 ELSE IF ctor_raises
                 THEN Result(s.command_endpoint,
                             <<Call("construct", id, "raised")>>, enabled, TRUE)
                 ELSE IF sel.name # "RestEndpoint"
                 THEN Result(Adapter(id, sel.name,
                                     Pick(stored, sel.keys \cup sel.optional)),
                             built, enabled, FALSE)
                 ELSE IF failing = {}
                 THEN Result(Adapter(id, sel.name,
                                     Pick(stored, sel.keys \cup sel.optional)),
                             built \o [i \in DOMAIN set |->
                                         Call(SetterOp[set[i]], id, "returned")],
                             enabled, FALSE)
                 ELSE LET p == CHOOSE i \in failing : TRUE
                      IN  Result(Adapter(id, sel.name,
                                         Pick(stored, sel.keys \cup
                                                {set[i] : i \in 1..(p - 1)})),
                                 built \o [i \in 1..p |->
                                     Call(SetterOp[set[i]], id,
                                          IF i = p THEN "raised" ELSE "returned")],
                                 enabled, TRUE)

\* -------------------------------------------------------------- replies
SpeechResult(speech) == [result |-> [speech |-> speech]]
NotActive == SpeechResult("WAS Command Endpoint not active")
Unreachable == SpeechResult("WAS Command Endpoint unreachable")
EndpointReply == SpeechResult("ok")      \* what parse_response() returns
ConfigReply == [config |-> "config"]     \* build_msg(get_config_db(), "config")

SendResults == {"response", "none", "unreachable", "raised"}
ParseResults == {"text", "none", "unreachable", "raised"}

\* lines 222-235: the command goes to the installed adapter.  send_result,
\* parse_result: what the adapter's send() and parse_response() do.  Result:
\* replies scheduled, log records, adapter calls, and whether an exception
\* leaves the branch.
Outcome(os, lg, cs, raised) ==
    [out |-> os, log |-> lg, calls |-> cs, raised |-> raised]

\* a dispatch that answered a missing response with the unreachable reply
dispatch_NoneIsError(ce, ws, msg, send_result, parse_result) ==
    LET sent == Call("send", ce.id, send_result)
        parsed == Call("parse_response", ce.id, parse_result)
        unreachable == <<"WAS Command Endpoint unreachable">>
    IN  IF ~Has(msg, "data")
        THEN Outcome(<<>>, <<>>, <<>>, TRUE)
        ELSE IF send_result = "raised"
        THEN Outcome(<<>>, <<>>, <<sent>>, TRUE)
        ELSE IF send_result # "response"
        THEN Outcome(<<<<ws, Unreachable>>>>, unreachable, <<sent>>, FALSE)
        ELSE IF parse_result = "raised"
        THEN Outcome(<<>>, <<>>, <<sent, parsed>>, TRUE)
        ELSE IF parse_result # "text"
        THEN Outcome(<<<<ws, Unreachable>>>>, unreachable, <<sent, parsed>>, FALSE)
        ELSE Outcome(<<<<ws, EndpointReply>>>>, <<>>, <<sent, parsed>>, FALSE)

dispatch(ce, ws, msg, send_result, parse_result) ==
    LET sent == Call("send", ce.id, send_result)
        parsed == Call("parse_response", ce.id, parse_result)
        unreachable == <<"WAS Command Endpoint unreachable">>
    IN  IF ~Has(msg, "data")                       \* KeyError in line 222
        THEN Outcome(<<>>, <<>>, <<>>, TRUE)
        ELSE CASE send_result = "unreachable" ->
                    Outcome(<<<<ws, Unreachable>>>>, unreachable, <<sent>>, FALSE)
               [] send_result = "raised" -> Outcome(<<>>, <<>>, <<sent>>, TRUE)
               [] send_result = "none" -> Outcome(<<>>, <<>>, <<sent>>, FALSE)
               [] send_result = "response" ->
                    CASE parse_result = "unreachable" ->
                            Outcome(<<<<ws, Unreachable>>>>, unreachable,
                                    <<sent, parsed>>, FALSE)
                      [] parse_result = "raised" ->
                            Outcome(<<>>, <<>>, <<sent, parsed>>, TRUE)
                      [] parse_result = "none" ->
                            Outcome(<<>>, <<>>, <<sent, parsed>>, FALSE)
                      [] parse_result = "text" ->
                            Outcome(<<<<ws, EndpointReply>>>>, <<>>,
                                    <<sent, parsed>>, FALSE)

\* lines 237-241: no adapter is installed
not_active_Silent(ws) ==
    Outcome(<<>>, <<"WAS Command Endpoint not active">>, <<>>, FALSE)
not_active(ws) ==
    Outcome(<<<<ws, NotActive>>>>, <<"WAS Command Endpoint not active">>,
            <<>>, FALSE)

\* lines 220-241, cmd == "endpoint"
on_endpoint(ce, ws, msg, send_result, parse_result) ==
    IF ce # None
    THEN dispatch(ce, ws, msg, send_result, parse_result)
    ELSE not_active(ws)

\* ------------------------------------------------------------------ state
Init ==
    /\ inputs = 0
    /\ started = FALSE
    /\ session = [ws \in Conns |-> "Idle"]
    /\ connected_clients = [ws \in {} |-> Client("")]
    /\ wake_session = NoSession
    /\ sessions = [i \in {} |-> WakeSession]
    /\ notify_queue = {}
    /\ command_endpoint = None
    /\ last = [ws |-> NoConn, branch |-> "init"]
    /\ out = <<>>
    /\ log = <<>>
    /\ calls = <<>>
    /\ msg_keys = {}

\* what one step leaves in the observation variables
Step(ws, branch, os, lg, cs) ==
    /\ last' = [ws |-> ws, branch |-> branch]
    /\ out' = os
    /\ log' = lg
    /\ calls' = cs

\* lifespan(), lines 113-122: registry, adapter slot, first configuration,
\* notification queue
Lifespan(stored, ctor_raises, fault) ==
    /\ msg_keys' = {}
    /\ inputs' = inputs
    /\ ~started
    /\ LET r == init_command_endpoint(None, stored, FALSE, ctor_raises, fault)
       IN  /\ command_endpoint' = r.command_endpoint
           /\ Step(NoConn, "lifespan", <<>>,
                   r.log \o (IF r.raised
                             THEN <<"failed to initialize command endpoint">>
                             ELSE <<>>),
                   r.calls)
    /\ started' = TRUE
    /\ connected_clients' = [ws \in {} |-> Client("")]
    /\ notify_queue' = {}
    /\ UNCHANGED <<session, wake_session, sessions>>

\* the configuration layer calls init_command_endpoint(app) after a change.
\* The call is one step between two iterations of the receive loops: that is
\* how a caller on the event loop runs it.  The caller is not part of the
\* modelled sources; a caller on another thread could run it inside an
\* iteration, which this model does not describe.
Reconfigure(stored, stop_raises, ctor_raises, fault) ==
    /\ msg_keys' = {}
    /\ inputs < MaxInputs
    /\ inputs' = inputs + 1
    /\ started
    /\ LET r == init_command_endpoint(command_endpoint, stored,
                                      stop_raises, ctor_raises, fault)
       IN  /\ command_endpoint' = r.command_endpoint
           /\ Step(NoConn, "init_command_endpoint", <<>>, r.log, r.calls)
    /\ UNCHANGED <<started, session, connected_clients, wake_session, sessions,
                   notify_queue>>

\* NotifyQueue sends a notification to a registered handle and keeps it pending
NotifySend(ws, id) ==
    /\ msg_keys' = {}
    /\ inputs < MaxInputs
    /\ inputs' = inputs + 1
    /\ started
    /\ ws \in DOMAIN connected_clients
    /\ notify_queue' = notify_queue \cup {<<ws, id>>}
    /\ Step(ws, "notify", <<<<ws, [notify |-> id]>>>>, <<>>, <<>>)
    /\ UNCHANGED <<started, session, connected_clients, wake_session, sessions,
                   command_endpoint>>

\* a cleanup task of a WakeSession runs
Cleanup(id) ==
    /\ msg_keys' = {}
    /\ inputs' = inputs
    /\ id \in DOMAIN sessions
    /\ sessions[id].fired < sessions[id].tasks
    /\ sessions' = Collect(wake_session, cleanup(sessions, id))
    /\ Step(NoConn, "cleanup", <<>>, <<>>, <<>>)
    /\ UNCHANGED <<started, session, connected_clients, wake_session,
                   notify_queue, command_endpoint>>

\* lines 188-190: the route is entered and the handle registered
Accept(ws) ==
    /\ msg_keys' = {}
    /\ inputs' = inputs
    /\ started
    /\ session[ws] = "Idle"
    /\ session' = [session EXCEPT ![ws] = "Connected"]
    /\ connected_clients' = accept(connected_clients, ws, Client("Willow/1.0"))
    /\ Step(ws, "accept", <<>>, <<>>, <<>>)
    /\ UNCHANGED <<started, wake_session, sessions, notify_queue,
                   command_endpoint>>

\* lines 263-264: any other exception is logged and the coroutine returns
Unhandled(ws, branch, os, cs) ==
    /\ session' = [session EXCEPT ![ws] = "Terminated"]
    /\ Step(ws, branch, os, <<"unhandled exception in WebSocket route">>, cs)

\* the loop keeps going
Continue(ws, branch, os, lg, cs) ==
    /\ UNCHANGED session
    /\ Step(ws, branch, os, lg, cs)

\* lines 193-195: the coroutine of ws reads a frame that decodes to a message
\* taking the given branch
Receives(ws, data, branch) ==
    /\ session[ws] = "Connected"
    /\ Decodes(data)
    /\ Branch(loads(data)) = branch
    /\ inputs < MaxInputs
    /\ inputs' = inputs + 1
    /\ msg_keys' = { k \in DOMAIN loads(data) : \E i \in DOMAIN Known : Known[i] = k }

\* line 195: json.loads raises
DecodeError(ws, data) ==
    /\ msg_keys' = {}
    /\ inputs < MaxInputs
    /\ inputs' = inputs + 1
    /\ session[ws] = "Connected"
    /\ ~Decodes(data)
    /\ Unhandled(ws, "decode_error", <<>>, <<>>)
    /\ UNCHANGED <<started, connected_clients, wake_session, sessions,
                   notify_queue, command_endpoint>>

\* the close handlers, were a disconnect of an absent handle an error
Disconnected_Strict(ws, exception) ==
    /\ msg_keys' = {}
    /\ inputs' = inputs
    /\ session[ws] = "Connected"
    /\ session' = [session EXCEPT ![ws] = "Terminated"]
    /\ connected_clients' = disconnect(connected_clients, ws)
    /\ notify_queue' = purge(notify_queue, ws)
    /\ Step(ws, exception, <<>>,
            IF ws \in DOMAIN connected_clients THEN <<>>
            ELSE <<"unhandled exception in WebSocket route">>,
            <<RegistryCall("disconnect", connected_clients, ws, "")>>)
    /\ UNCHANGED <<started, wake_session, sessions, command_endpoint>>

\* lines 259-262: receive_text raises WebSocketDisconnect or ConnectionClosed
Disconnected(ws, exception) ==
    /\ msg_keys' = {}
    /\ inputs' = inputs
    /\ session[ws] = "Connected"
    /\ session' = [session EXCEPT ![ws] = "Terminated"]
    /\ connected_clients' = disconnect(connected_clients, ws)
    /\ notify_queue' = purge(notify_queue, ws)
    /\ Step(ws, exception, <<>>, <<>>,
            <<RegistryCall("disconnect", connected_clients, ws, "")>>)
    /\ UNCHANGED <<started, wake_session, sessions, command_endpoint>>

\* lines 198-211
OnWakeStart(ws, data) ==
    /\ Receives(ws, data, "wake_start")
    /\ NeedsSession(wake_session, sessions) => DOMAIN sessions # SessionIds
    /\ LET r == on_wake_start(wake_session, sessions, ws, loads(data).wake_start)
       IN  /\ \A i \in DOMAIN r.sessions : Len(r.sessions[i].events) <= MaxEvents
           /\ wake_session' = r.wake_session
           /\ sessions' = r.sessions
    /\ Continue(ws, "wake_start", <<>>, <<>>, <<>>)
    /\ UNCHANGED <<started, connected_clients, notify_queue, command_endpoint>>

\* lines 213-214
OnWakeEnd(ws, data) ==
    /\ Receives(ws, data, "wake_end")
    /\ Continue(ws, "wake_end", <<>>, <<>>, <<>>)
    /\ UNCHANGED <<started, connected_clients, wake_session, sessions,
                   notify_queue, command_endpoint>>

\* lines 216-217
OnNotifyDone(ws, data) ==
    /\ Receives(ws, data, "notify_done")
    /\ notify_queue' = notify_done(notify_queue, ws, loads(data).notify_done)
    /\ Continue(ws, "notify_done", <<>>, <<>>, <<>>)
    /\ UNCHANGED <<started, connected_clients, wake_session, sessions,
                   command_endpoint>>

\* lines 219-241
OnCmdEndpoint(ws, data, send_result, parse_result) ==
    /\ Receives(ws, data, "cmd")
    /\ loads(data).cmd = "endpoint"
    /\ LET r == on_endpoint(command_endpoint, ws, loads(data),
                            send_result, parse_result)
       IN  IF r.raised
           THEN Unhandled(ws, "cmd", r.out, r.calls)
           ELSE Continue(ws, "cmd", r.out, r.log, r.calls)
    /\ UNCHANGED <<started, connected_clients, wake_session, sessions,
                   notify_queue, command_endpoint>>

\* lines 243-244
OnCmdGetConfig(ws, data, stored) ==
    /\ Receives(ws, data, "cmd")
    /\ loads(data).cmd = "get_config"
    /\ IF stored = None
       THEN Unhandled(ws, "cmd", <<>>, <<>>)
       ELSE Continue(ws, "cmd", <<<<ws, ConfigReply>>>>, <<>>, <<>>)
    /\ UNCHANGED <<started, connected_clients, wake_session, sessions,
                   notify_queue, command_endpoint>>

\* a cmd branch that answered an unknown command with the not-active reply
OnCmdOther_Replies(ws, data) ==
    /\ Receives(ws, data, "cmd")
    /\ loads(data).cmd \notin {"endpoint", "get_config"}
    /\ Continue(ws, "cmd", <<<<ws, NotActive>>>>, <<>>, <<>>)
    /\ UNCHANGED <<started, connected_clients, wake_session, sessions,
                   notify_queue, command_endpoint>>

\* line 219 with a cmd that is neither "endpoint" nor "get_config"
OnCmdOther(ws, data) ==
    /\ Receives(ws, data, "cmd")
    /\ loads(data).cmd \notin {"endpoint", "get_config"}
    /\ Continue(ws, "cmd", <<>>, <<>>, <<>>)
    /\ UNCHANGED <<started, connected_clients, wake_session, sessions,
                   notify_queue, command_endpoint>>

\* lines 246-247
OnGoodbye(ws, data) ==
    /\ Receives(ws, data, "goodbye")
    /\ connected_clients' = disconnect(connected_clients, ws)
    /\ notify_queue' = purge(notify_queue, ws)
    /\ Continue(ws, "goodbye", <<>>, <<>>,
                <<RegistryCall("disconnect", connected_clients, ws, "")>>)
    /\ UNCHANGED <<started, wake_session, sessions, command_endpoint>>

\* lines 249-257
OnHello(ws, data) ==
    /\ Receives(ws, data, "hello")
    /\ connected_clients' = on_hello(connected_clients, ws, loads(data).hello)
    /\ Continue(ws, "hello", <<>>, <<>>,
                hello_calls(connected_clients, ws, loads(data).hello))
    /\ UNCHANGED <<started, wake_session, sessions, notify_queue,
                   command_endpoint>>

\* a message with none of the keys falls through the chain
OnOther(ws, data) ==
    /\ Receives(ws, data, "none")
    /\ Continue(ws, "none", <<>>, <<>>, <<>>)
    /\ UNCHANGED <<started, connected_clients, wake_session, sessions,
                   notify_queue, command_endpoint>>

Next ==
    \/ \E stored \in Stored, c \in BOOLEAN :
            \E f \in SetterFaults(stored) : Lifespan(stored, c, f)
    \/ \E stored \in Stored, s \in BOOLEAN, c \in BOOLEAN :
            \E f \in SetterFaults(stored) : Reconfigure(stored, s, c, f)
    \/ \E ws \in Conns, id \in SentIds : NotifySend(ws, id)
    \/ \E id \in SessionIds : Cleanup(id)
    \/ \E ws \in Conns : Accept(ws)
    \/ \E ws \in Conns, data \in Frames : DecodeError(ws, data)
    \/ \E ws \in Conns, e \in {"WebSocketDisconnect", "ConnectionClosed"} :
            Disconnected(ws, e)
    \/ \E ws \in Conns, data \in Frames : OnWakeStart(ws, data)
    \/ \E ws \in Conns, data \in Frames : OnWakeEnd(ws, data)
    \/ \E ws \in Conns, data \in Frames : OnNotifyDone(ws, data)
    \/ \E ws \in Conns, data \in EndpointFrames,
          s \in SendResults, p \in ParseResults :
            OnCmdEndpoint(ws, data, s, p)
    \/ \E ws \in Conns, data \in Frames, stored \in Stored :
            OnCmdGetConfig(ws, data, stored)
    \/ \E ws \in Conns, data \in Frames : OnCmdOther(ws, data)
    \/ \E ws \in Conns, data \in Frames : OnGoodbye(ws, data)
    \/ \E ws \in Conns, data \in Frames : OnHello(ws, data)
    \/ \E ws \in Conns, data \in Frames : OnOther(ws, data)

Spec == Init /\ [][Next]_vars

\* every scheduled cleanup task eventually runs
LiveSpec == Spec /\ \A id \in SessionIds : WF_vars(Cleanup(id))

\* ================================================================ properties
Range(seq) == { seq[i] : i \in DOMAIN seq }
OpenSessions == { i \in DOMAIN sessions : ~sessions[i].done }
Shared == <<connected_clients, wake_session, sessions, notify_queue,
            command_endpoint>>
UnhandledRecord == "unhandled exception in WebSocket route"

\* C1: at most one WakeSession is Open; no event is ever appended to a Done
\* session; a wake_start with a volume that finds the current session Done (or
\* none) records its event as the only event of a session created by that very
\* step, and one that finds it Open appends the event to that same session.
C1_OneOpenSession ==
    [][ /\ Cardinality(OpenSessions') <= 1
        /\ \A i \in DOMAIN sessions :
              (sessions[i].done /\ i \in DOMAIN sessions')
                  => sessions'[i].events = sessions[i].events
        /\ \A ws \in Conns, v \in Volumes :
              (/\ last'.branch = "wake_start"
               /\ OnWakeStart(ws, [json |-> [wake_start |-> [wake_volume |-> v]]]))
                  => IF wake_session # NoSession /\ ~sessions[wake_session].done
                     THEN /\ wake_session' = wake_session
                          /\ sessions'[wake_session].events =
                                Append(sessions[wake_session].events,
                                       WakeEvent(ws, v))
                     ELSE /\ wake_session' \notin DOMAIN sessions
                          /\ ~sessions'[wake_session'].done
                          /\ sessions'[wake_session'].events = <<WakeEvent(ws, v)>>
      ]_vars

\* C1 witness: a wake_start arrived after the first session was Done and its
\* event is the only event of the second, fresh session.
C1_Witness ==
    /\ last.branch = "wake_start"
    /\ wake_session = 2
    /\ ~sessions[wake_session].done
    /\ sessions[wake_session].events = <<WakeEvent(last.ws, 7)>>

\* C2 as stated: a wake_end processed while the current session is Open leaves
\* that session Done at once, before any cleanup task has run.
C2_WakeEndCloses ==
    [][ \A ws \in Conns :
           (/\ OnWakeEnd(ws, [json |-> [wake_end |-> EmptyObj]])
            /\ wake_session # NoSession
            /\ ~sessions[wake_session].done)
               => sessions'[wake_session].done ]_vars

\* C3 as stated: after a failure while handling one message (an undecodable
\* payload or any other exception) the session is still Connected.
C3_FailureKeepsSession ==
    UnhandledRecord \in Range(log) => session[last.ws] = "Connected"

\* C4 as stated: a terminated session's handle is no longer registered.
C4_TerminatedIsUnregistered ==
    \A ws \in Conns :
        session[ws] = "Terminated" => ws \notin DOMAIN connected_clients

\* C5 as stated: once goodbye is processed the session is in its terminal
\* state, so the step after it never dispatches a message of that connection.
C5_GoodbyeIsTerminal ==
    [][ last.branch = "goodbye"
           => ~(/\ last'.ws = last.ws
                /\ last'.branch \in {"wake_start", "wake_end", "notify_done",
                                     "cmd", "hello"}) ]_vars

\* C6 as stated: the adapter slot never holds an adapter on which stop() has
\* been called, and no command is sent to such an adapter.
C6_NoStoppedAdapterInstalled ==
    command_endpoint # None => ~command_endpoint.stopped

\* the records init_command_endpoint and lifespan write themselves
ConfigRecords ==
    {"WAS Endpoint mode enabled", "failed to initialize command endpoint"}
Reconfigured == last.branch \in {"lifespan", "init_command_endpoint"}
StopRaised == calls # <<>> /\ calls[1].op = "stop" /\ calls[1].result = "raised"
StopFirst ==
    /\ calls # <<>>
    /\ calls[1].op = "stop"
    /\ \A i \in 2..Len(calls) : calls[i].op \in {"construct"} \cup Range(SetterOp)
Constructed ==
    \E i \in DOMAIN calls : calls[i].op = "construct" /\ calls[i].result = "returned"
NewInstalled ==
    /\ command_endpoint # None
    /\ ~command_endpoint.stopped
    /\ \E i \in DOMAIN calls :
          calls[i] = Call("construct", command_endpoint.id, "returned")

\* C7 as stated: stop() comes before the construction of the new adapter, a
\* failure of stop() (also: no previous adapter) is logged and does not keep the
\* new adapter from being installed.
C7_StopFailureLogged ==
    Reconfigured =>
        /\ StopFirst
        /\ StopRaised => \E r \in Range(log) : r \notin ConfigRecords
        /\ Constructed => NewInstalled

\* C8: an endpoint command that finds no adapter installed schedules exactly
\* one reply, "WAS Command Endpoint not active", to the sending device, changes
\* no shared state and leaves every session as it was (the sender Connected).
C8_NotActiveReply ==
    [][ (command_endpoint = None /\ last'.branch = "cmd") =>
        \A ws \in {last'.ws}, data \in EndpointFrames,
           s \in SendResults, p \in ParseResults :
           OnCmdEndpoint(ws, data, s, p)
               => /\ out' = <<<<ws, NotActive>>>>
                  /\ Shared' = Shared
                  /\ session' = session /\ session'[ws] = "Connected" ]_vars

\* C8 witness: the not-active reply has just been scheduled and the sender is
\* still Connected.
C8_Witness ==
    /\ last.branch = "cmd"
    /\ command_endpoint = None
    /\ out = <<<<last.ws, NotActive>>>>
    /\ session[last.ws] = "Connected"

\* C9 as stated: whenever send() or parse_response() fails during a dispatch,
\* the device gets a speech-result reply (the unreachable one when the backend
\* is unreachable) and the session stays Connected.
C9_DispatchFailureBecomesReply ==
    (/\ last.branch = "cmd"
     /\ \E i \in DOMAIN calls : calls[i].result \in {"raised", "unreachable"})
        => /\ session[last.ws] = "Connected"
           /\ Len(out) = 1
           /\ out[1][1] = last.ws
           /\ Has(out[1][2], "result")
           /\ (\E i \in DOMAIN calls : calls[i].result = "unreachable")
                 => out[1][2] = Unreachable

\* C10: every session that is Open is Done later on, with no wake_end having
\* any part in it, provided its cleanup task gets to run.
C10_OpenLeadsToDone ==
    \A id \in SessionIds :
        (id \in DOMAIN sessions /\ ~sessions[id].done)
            ~> (id \in DOMAIN sessions /\ sessions[id].done)

\* C10 witness: a session with events became Done by its cleanup task.
C10_Witness ==
    /\ last.branch = "cleanup"
    /\ wake_session # NoSession
    /\ sessions[wake_session].done
    /\ sessions[wake_session].events # <<>>
    /\ sessions[wake_session].fired = 1

\* the exceptions of the two close handlers
Closes == {"WebSocketDisconnect", "ConnectionClosed"}

\* C11: when the transport of a connection closes after its goodbye, the second
\* disconnect of the handle raises nothing and changes neither the registry nor
\* any pending notification.
C11_SecondDisconnectIsNoOp ==
    [][ (last'.branch \in Closes /\ last'.ws \notin DOMAIN connected_clients) =>
        \A ws \in Conns, e \in Closes :
            Disconnected(ws, e)
                => /\ connected_clients' = connected_clients
                   /\ notify_queue' = notify_queue
                   /\ log' = <<>>
                   /\ session'[ws] = "Terminated" ]_vars

\* C11 witness: the close handler has disconnected a handle that goodbye had
\* already removed, while the other connection is registered with a
\* notification pending.
C11_Witness ==
    /\ last.branch \in Closes
    /\ calls = <<RegistryCall("disconnect", connected_clients, last.ws, "")>>
    /\ calls[1].result = "absent"
    /\ session[last.ws] = "Terminated"
    /\ \E other \in DOMAIN connected_clients :
          other # last.ws /\ \E id \in SentIds : <<other, id>> \in notify_queue

\* C12: a hello on a connection whose handle is no longer registered changes
\* nothing in the registry, logs no error and leaves the session Connected.
C12_HelloAfterRemovalIsNoOp ==
    [][ (last'.branch = "hello" /\ last'.ws \notin DOMAIN connected_clients) =>
        \A ws \in Conns, data \in Frames :
            OnHello(ws, data)
                => /\ connected_clients' = connected_clients
                   /\ log' = <<>> /\ out' = <<>>
                   /\ session' = session /\ session'[ws] = "Connected" ]_vars

\* C12 witness: a hello carrying a hostname has been handled for a handle that
\* is not registered, and the handle is still not registered.
C12_Witness ==
    /\ last.branch = "hello"
    /\ calls # <<>>
    /\ calls[1].what = "hostname" /\ calls[1].result = "absent"
    /\ last.ws \notin DOMAIN connected_clients
    /\ session[last.ws] = "Connected"

\* the stored form of the one hw_type and of the one MAC the hellos carry
StoredPlatform == "ESP32S3"
StoredMac == "aa:bb:cc:dd:ee:ff"

\* C13: a hello on a registered connection sets each field it carries (the
\* platform upper-cased, the MAC as its colon-separated string), leaves each
\* field it omits as it was, and changes no other connection's record; a
\* connection starts with all three fields unset.
C13_HelloSetsCarriedFields ==
    [][ /\ last'.branch = "accept"
            => LET c == connected_clients'[last'.ws]
               IN  c.hostname = Unset /\ c.platform = Unset /\ c.mac_addr = Unset
        /\ (last'.branch = "hello" /\ last'.ws \in DOMAIN connected_clients) =>
            \A ws \in Conns, data \in Frames :
              OnHello(ws, data)
                => LET h == loads(data).hello
                       old == connected_clients[ws]
                       new == connected_clients'[ws]
                   IN  /\ DOMAIN connected_clients' = DOMAIN connected_clients
                       /\ new.hostname = IF Has(h, "hostname") THEN h.hostname
                                         ELSE old.hostname
                       /\ new.platform = IF Has(h, "hw_type") THEN StoredPlatform
                                         ELSE old.platform
                       /\ new.mac_addr = IF Has(h, "mac_addr") THEN StoredMac
                                         ELSE old.mac_addr
                       /\ new.ua = old.ua
                       /\ \A other \in DOMAIN connected_clients \ {ws} :
                             connected_clients'[other] = connected_clients[other]
      ]_vars

\* C13 witness: the last hello carried a hostname and a MAC but no hw_type; it
\* replaced the hostname of the earlier hello whose platform is still stored, and
\* the other registered connection has had no field set.
C13_Witness ==
    /\ last.branch = "hello"
    /\ Len(calls) = 2
    /\ calls[1].what = "hostname" /\ calls[2].what = "mac_addr"
    /\ last.ws \in DOMAIN connected_clients
    /\ connected_clients[last.ws].hostname = "kitchen"
    /\ connected_clients[last.ws].platform = StoredPlatform
    /\ connected_clients[last.ws].mac_addr = StoredMac
    /\ \E other \in DOMAIN connected_clients :
          /\ other # last.ws
          /\ connected_clients[other].hostname = Unset
          /\ connected_clients[other].platform = Unset
          /\ connected_clients[other].mac_addr = Unset

FailedRecord == "failed to initialize command endpoint"

\* the first configuration of a startup fails: init_command_endpoint raises
InitFails(stored, ctor_raises, fault) ==
    init_command_endpoint(None, stored, FALSE, ctor_raises, fault).raised

\* C14 as stated: a startup with no stored configuration, or whose adapter
\* initialisation fails, completes with an empty adapter slot, an empty
\* registry and an empty notification queue; the slot stays empty until a
\* reconfiguration installs an adapter, and as long as it is empty an endpoint
\* command is answered with the not-active reply.
C14_StartupWithoutAdapter ==
    [][ /\ last'.branch = "lifespan" =>
            \A stored \in Stored, c \in BOOLEAN :
              \A f \in SetterFaults(stored) :
                (Lifespan(stored, c, f) /\ InitFails(stored, c, f))
                    => /\ started'
                       /\ FailedRecord \in Range(log')
                       /\ command_endpoint' = None
                       /\ DOMAIN connected_clients' = {}
                       /\ notify_queue' = {}
        /\ (command_endpoint = None /\ command_endpoint' # None)
            => /\ last'.branch \in {"lifespan", "init_command_endpoint"}
               /\ NewInstalled'
        /\ (started /\ command_endpoint = None /\ last'.branch = "cmd") =>
            \A ws \in {last'.ws}, data \in EndpointFrames,
               s \in SendResults, p \in ParseResults :
                OnCmdEndpoint(ws, data, s, p)
                    => out' = <<<<ws, NotActive>>>> /\ calls' = <<>>
      ]_vars

\* C15: an endpoint command schedules at most one reply, and only to its
\* sender; when send() or parse_response() returns None nothing is written,
\* nothing is logged and the session stays Connected; when both return a value
\* the reply is exactly the parsed response.
C15_AtMostOneReplyToSender ==
    [][ last'.branch = "cmd" =>
          /\ Len(out') <= 1
          /\ \A i \in DOMAIN out' : out'[i][1] = last'.ws
          /\ (calls' # <<>> /\ calls'[Len(calls')].result = "none")
                => /\ out' = <<>>
                   /\ log' = <<>>
                   /\ session' = session
                   /\ session'[last'.ws] = "Connected"
          /\ (calls' # <<>> /\ calls'[Len(calls')].result = "text")
                => /\ calls' = <<Call("send", command_endpoint.id, "response"),
                                 Call("parse_response", command_endpoint.id, "text")>>
                   /\ out' = <<<<last'.ws, EndpointReply>>>> ]_vars

\* C15 witness: parse_response() returned None for the response send() gave:
\* nothing was written or logged and the sender is still Connected.
C15_Witness ==
    /\ last.branch = "cmd"
    /\ Len(calls) = 2
    /\ calls[1] = Call("send", command_endpoint.id, "response")
    /\ calls[2] = Call("parse_response", command_endpoint.id, "none")
    /\ out = <<>> /\ log = <<>>
    /\ session[last.ws] = "Connected"

\* C16: a message with none of the six keys, and a cmd message whose cmd is
\* neither "endpoint" nor "get_config", change nothing in the registry, the
\* wake session, the pending notifications and the adapter slot, write nothing,
\* log nothing and leave the session Connected.
C16_UnknownMessageIgnored ==
    [][ last'.branch \in {"none", "cmd"} =>
        \A ws \in {last'.ws}, data \in Frames :
            (OnOther(ws, data) \/ OnCmdOther(ws, data))
                => /\ Shared' = Shared
                   /\ out' = <<>> /\ log' = <<>> /\ calls' = <<>>
                   /\ session' = session /\ session'[ws] = "Connected" ]_vars

\* C16 witness: a cmd message that is neither an endpoint command nor
\* get_config has been read by a registered connection while an adapter was
\* installed: no adapter call, no reply, no log record.
C16_Witness ==
    /\ last.branch = "cmd"
    /\ command_endpoint # None
    /\ out = <<>> /\ log = <<>> /\ calls = <<>>
    /\ last.ws \in DOMAIN connected_clients
    /\ session[last.ws] = "Connected"

\* C16 witness for the other case: a message with no known key has been read
\* while the other connection had a notification pending.
C16_WitnessNoKey ==
    /\ last.branch = "none"
    /\ out = <<>> /\ log = <<>> /\ calls = <<>>
    /\ last.ws \in DOMAIN connected_clients
    /\ session[last.ws] = "Connected"
    /\ notify_queue # {}

\* the events a session has before a step; a session the step creates has none
EventsBefore(i) == IF i \in DOMAIN sessions THEN sessions[i].events ELSE <<>>

\* C17: a wake_start without wake_volume leaves the events of every session as
\* they were (a session it creates has none), and whenever the events of a
\* session change, the step is a wake_start that appended one WakeEvent holding
\* its sender and the volume it carried.
C17_NoVolumeNoEvent ==
    [][ /\ last'.branch = "wake_start" =>
            \A ws \in {last'.ws} :
                OnWakeStart(ws, [json |-> [wake_start |-> EmptyObj]])
                    => \A i \in DOMAIN sessions' :
                          sessions'[i].events = EventsBefore(i)
        /\ \A i \in DOMAIN sessions' :
              sessions'[i].events # EventsBefore(i)
                  => /\ last'.branch = "wake_start"
                     /\ i = wake_session'
                     /\ \E v \in Volumes :
                           /\ sessions'[i].events =
                                 Append(EventsBefore(i), WakeEvent(last'.ws, v))
                           /\ \E data \in Frames :
                                 /\ Decodes(data)
                                 /\ Has(loads(data), "wake_start")
                                 /\ Has(loads(data).wake_start, "wake_volume")
                                 /\ loads(data).wake_start.wake_volume = v
                                 /\ OnWakeStart(last'.ws, data)
      ]_vars

\* C17 witness: a wake_start without a volume has created the current session,
\* which is Open and has no event.
C17_Witness ==
    /\ last.branch = "wake_start"
    /\ wake_session # NoSession
    /\ ~sessions[wake_session].done
    /\ sessions[wake_session].events = <<>>

\* C19: every WakeSession has exactly one cleanup task from the step that
\* creates it, be it the first session or the replacement of a Done one, and
\* no later step, a wake_start appending to it included, gives it another.
C19_OneCleanupTaskPerSession ==
    [][ \A i \in DOMAIN sessions' :
          /\ sessions'[i].tasks = 1
          /\ sessions'[i].fired <= 1
          /\ i \notin DOMAIN sessions
                => /\ last'.branch = "wake_start"
                   /\ i = wake_session'
                   /\ sessions'[i].fired = 0
                   /\ NeedsSession(wake_session, sessions)
          /\ (last'.branch = "wake_start" /\ ~NeedsSession(wake_session, sessions))
                => /\ i = wake_session
                   /\ sessions'[i].tasks = sessions[i].tasks ]_vars

\* C19 witness: the current session has had a second event appended by a later
\* wake_start and still has the one cleanup task of its creation, which has
\* not run yet.
C19_Witness ==
    /\ last.branch = "wake_start"
    /\ wake_session # NoSession
    /\ Len(sessions[wake_session].events) = 2
    /\ sessions[wake_session].tasks = 1
    /\ sessions[wake_session].fired = 0

\* C19 witness for the replacement: the session created in place of a Done one
\* has its one cleanup task.
C19_WitnessReplacement ==
    /\ last.branch = "wake_start"
    /\ wake_session = 2
    /\ sessions[2].tasks = 1
    /\ sessions[2].fired = 0

\* the known key of a message that comes first in the priority order
Highest(present) ==
    Known[CHOOSE i \in DOMAIN Known :
              /\ Known[i] \in present
              /\ \A j \in DOMAIN Known : Known[j] \in present => i <= j]

\* C20: a message with known keys is handled by the branch of the key that
\* comes first in the order wake_start, wake_end, notify_done, cmd, goodbye,
\* hello, and by that branch only: the registry changes only under goodbye or
\* hello, the pending notifications only under notify_done or goodbye, the wake
\* session only under wake_start, and a reply is written only under cmd.
C20_HighestPriorityKeyOnly ==
    [][ msg_keys' # {} =>
          LET kind == Highest(msg_keys')
          IN  /\ last'.branch = kind
              /\ kind \notin {"goodbye", "hello"}
                    => connected_clients' = connected_clients
              /\ kind \notin {"notify_done", "goodbye"}
                    => notify_queue' = notify_queue
              /\ kind # "wake_start"
                    => wake_session' = wake_session /\ sessions' = sessions
              /\ kind # "cmd" => out' = <<>>
              /\ kind # "goodbye"
                    => \A i \in DOMAIN calls' : calls'[i].op # "disconnect"
              /\ kind # "hello"
                    => \A i \in DOMAIN calls' : calls'[i].op # "update_client"
      ]_vars

\* C20 witness: a registered connection has sent a message with both cmd and
\* goodbye; it was handled as cmd and the connection is still registered.
C20_Witness ==
    /\ msg_keys = {"cmd", "goodbye"}
    /\ last.branch = "cmd"
    /\ last.ws \in DOMAIN connected_clients
    /\ session[last.ws] = "Connected"

\* C20 witness for wake_start and hello: the message recorded its wake event
\* and set no field of its sender's registry entry.
C20_WitnessWakeStartHello ==
    /\ msg_keys = {"wake_start", "hello"}
    /\ last.branch = "wake_start"
    /\ sessions[wake_session].events # <<>>
    /\ connected_clients[last.ws].hostname = Unset

====
